---- MODULE Spec2Model ----
(***************************************************************************)
(* Model of linalg/qrdecomp/qr.py: class QR (Gram-Schmidt, modified        *)
(* Gram-Schmidt and Householder QR factorizations, and solve).             *)
(*                                                                         *)
(* float64 values are modelled as exact rationals <<n, d>> with d > 0 in   *)
(* lowest terms, extended by the IEEE specials +inf = <<1, 0>>,            *)
(* -inf = <<-1, 0>> and NaN = <<0, 0>>.  Rounding is not modelled; the     *)
(* input matrices are chosen so that every square root taken is exact.     *)
(* numpy arrays live in a heap of array objects; the attributes of the QR  *)
(* object hold references into it, so that aliasing (self.R = self.A) and  *)
(* copying (np.array(...)) are distinguishable.                            *)
(* Loop indices are 0-based as in the source; sequences are 1-based.       *)
(***************************************************************************)
EXTENDS Integers, Sequences, FiniteSets, TLC

\* bound on the number of method calls made on one engine
MaxCalls == 3

None == "None"
\* an attribute holding no array yet / an absent value
Unset == <<>>

\* F applied to the value of val, val being evaluated once
Let(val, F(_)) == CHOOSE r \in {F(z) : z \in {val}} : TRUE

Let2(val1, val2, F(_, _)) ==
  CHOOSE r \in {F(z1, z2) : z1 \in {val1}, z2 \in {val2}} : TRUE

\* the sequence <<F(1), ..., F(n)>>, built eagerly
RECURSIVE Tab(_, _, _)
Tab(F(_), k, n) == IF k > n THEN <<>> ELSE <<F(k)>> \o Tab(F, k + 1, n)

Vec(n, F(_)) == Tab(F, 1, n)

(***************************************************************************)
(* float64 arithmetic                                                      *)
(***************************************************************************)
Min(a, b) == IF a < b THEN a ELSE b

Abs(n) == IF n < 0 THEN -n ELSE n

Sgn(n) == IF n > 0 THEN 1 ELSE IF n < 0 THEN -1 ELSE 0

RECURSIVE GCD(_, _)
GCD(a, b) == Let2(a, b, LAMBDA p, q : IF q = 0 THEN p ELSE GCD(q, p % q))

Norm(n, d) ==
  Let2(n, d, LAMBDA p, q :
    IF q = 0 THEN <<Sgn(p), 0>>
    ELSE Let(GCD(Abs(p), Abs(q)), LAMBDA g : <<Sgn(q) * (p \div g), Abs(q) \div g>>))

RI(n) == <<n, 1>>
Frac(n, d) == Norm(n, d)
NaN == <<0, 0>>
Inf == <<1, 0>>

IsFinite(x) == x[2] # 0
IsZero(x) == x[2] # 0 /\ x[1] = 0

Neg(x) == Let(x, LAMBDA a : <<-a[1], a[2]>>)

Add(x, y) ==
  Let2(x, y, LAMBDA a, c :
    IF a[2] = 0 /\ c[2] = 0
    THEN IF a = c THEN a ELSE NaN
    ELSE Norm(a[1] * c[2] + c[1] * a[2], a[2] * c[2]))

Sub(x, y) == Add(x, Neg(y))

Mul(x, y) == Let2(x, y, LAMBDA a, c : Norm(a[1] * c[1], a[2] * c[2]))

\* numpy float64 division: x/0 is +-inf or NaN (a RuntimeWarning, no exception)
Div(x, y) ==
  Let2(x, y, LAMBDA a, c :
    Norm(a[1] * c[2] * (IF c[1] < 0 THEN -1 ELSE 1), a[2] * Abs(c[1])))

\* x >= 0 (False for NaN)
Geq0(x) == x # NaN /\ x[1] >= 0

\* the largest k in lo..hi with k * k <= n, by bisection
RECURSIVE FloorSqrt(_, _, _)
FloorSqrt(n, lo, hi) ==
  Let2(lo, hi, LAMBDA l, h :
    IF l >= h THEN l
    ELSE Let((l + h + 1) \div 2, LAMBDA mid :
           IF mid * mid <= n THEN FloorSqrt(n, mid, h) ELSE FloorSqrt(n, l, mid - 1)))

\* the exact integer square root; undefined if n is not a perfect square
\* (46340 is the largest integer whose square fits in 32 bits)
ISqrt(n) == CHOOSE k \in {FloorSqrt(n, 0, Min(n, 46340))} : k * k = n

Sqrt(x) ==
  Let(x, LAMBDA a :
    IF a[1] < 0 \/ a = NaN THEN NaN
    ELSE IF a[2] = 0 THEN Inf
    ELSE <<ISqrt(a[1]), ISqrt(a[2])>>)

AbsNum(x) == <<Abs(x[1]), x[2]>>

(***************************************************************************)
(* vectors and matrices (a matrix is a sequence of rows)                   *)
(***************************************************************************)
NRows(W) == Len(W)
NCols(W) == Len(W[1])

RECURSIVE DotFrom(_, _, _)
DotFrom(u, v, r) ==
  IF r > Len(u) THEN RI(0) ELSE Add(Mul(u[r], v[r]), DotFrom(u, v, r + 1))

\* u.T @ v
Dot(u, v) == Let2(u, v, LAMBDA u1, v1 : DotFrom(u1, v1, 1))

Col(W, j) == Let(W, LAMBDA W1 : Vec(Len(W1), LAMBDA r : W1[r][j + 1]))

\* W[i:, j]
SubCol(W, i, j) == Let(W, LAMBDA W1 : Vec(Len(W1) - i, LAMBDA r : W1[i + r][j + 1]))

\* W[i:, j] = u
SetSubCol(W, i, j, u) ==
  Let2(W, u, LAMBDA W1, u1 :
    Vec(Len(W1), LAMBDA r :
      Vec(Len(W1[r]), LAMBDA c : IF c = j + 1 /\ r > i THEN u1[r - i] ELSE W1[r][c])))

Transpose(W) ==
  Let(W, LAMBDA W1 : Vec(NCols(W1), LAMBDA c : Vec(NRows(W1), LAMBDA r : W1[r][c])))

\* np.dot(X, Y) for 2-D X (p x q) and 2-D Y (q x s)
MatMul(X, Y) ==
  Let2(X, Y, LAMBDA X1, Y1 :
    Vec(NRows(X1), LAMBDA r : Vec(NCols(Y1), LAMBDA c : Dot(X1[r], Col(Y1, c - 1)))))

\* np.eye(M)
Eye(M) == Vec(M, LAMBDA r : Vec(M, LAMBDA c : IF r = c THEN RI(1) ELSE RI(0)))

\* np.zeros([n, k])
Zeros(n, k) == Vec(n, LAMBDA r : Vec(k, LAMBDA c : RI(0)))

(***************************************************************************)
(* linalg.utils and linalg.kahan                                           *)
(***************************************************************************)
l2_norm(v) == Sqrt(Dot(v, v))

sign(x) == IF Geq0(x) THEN RI(1) ELSE RI(-1)

projection(u, v) ==
  Let2(v, Div(Dot(u, v), Dot(v, v)), LAMBDA v1, k : Vec(Len(v1), LAMBDA r : Mul(k, v1[r])))

normalize(v) ==
  Let2(v, l2_norm(v), LAMBDA v1, c : Vec(Len(v1), LAMBDA r : Div(v1[r], c)))

basis_vec(i, n) == Vec(n, LAMBDA r : IF r = i + 1 THEN RI(1) ELSE RI(0))

KahanAdd(acc, value) ==
  Let2(acc, value, LAMBDA a, t :
    Let(Sub(t, a.correction), LAMBDA y1 :
      Let(Add(a.total, y1), LAMBDA temp :
        [total |-> temp, correction |-> Sub(Sub(temp, a.total), y1)])))

KahanSum == [total |-> RI(0), correction |-> RI(0)]

KahanResult(acc) == acc.total

\* np.isclose(x, 0) with numpy's defaults: |x - 0| <= atol + rtol * |0|
IsCloseAtolInv == 100000000

IsCloseZero(x) ==
  Let(x, LAMBDA a :
    /\ IsFinite(a)
    /\ \/ a[1] = 0
       \/ a[2] \div Abs(a[1]) >= IsCloseAtolInv)

(***************************************************************************)
(* heap of numpy arrays                                                    *)
(***************************************************************************)
\* "b0": the array made by the constructor; "w", "q", "r": the arrays a
\* factorization call allocates (every call allocates them anew, and the
\* arrays of earlier calls are never written again, so the ids are reused)
ArrIds == {"b0", "w", "q", "r"}

\* the slip of binding the source array itself instead of a copy of it
NpArrayAlias(src, fresh) == src

\* np.array(src): a new array object holding a copy of src
NpArray(src, fresh) == fresh

\* the slip of carrying on from the previous call's working copy
WorkingCopyStale(self) ==
  IF self.A = None THEN self.heap[self.backup] ELSE self.heap[self.A]

\* the contents np.array(self.backup) starts a factorization from
WorkingCopy(self) == self.heap[self.backup]

(***************************************************************************)
(* QR.householder                                                          *)
(***************************************************************************)
\* col - (2 * v.T @ col) / (v.T @ v) * v
Reflect(v, col) ==
  Let2(v, col, LAMBDA v1, c1 :
    Let(Div(Mul(RI(2), Dot(v1, c1)), Dot(v1, v1)), LAMBDA k :
      Vec(Len(v1), LAMBDA r : Sub(c1[r], Mul(k, v1[r])))))

\* the slip of leaving the guard out
NeverDegenerate(v) == FALSE

\* not np.isclose(v.T @ v, 0) is the guard of both reflection loops
DegenerateReflection(v) == IsCloseZero(Dot(v, v))

\* the exclusive upper end of `for j in range(i, K)`
ElimColStop(M, N) == Min(M, N)

RECURSIVE ElimCols(_, _, _, _, _)
ElimCols(W, v, i, j, stop) ==
  Let(W, LAMBDA W1 :
    IF j >= stop THEN W1
    ELSE ElimCols(SetSubCol(W1, i, j, Reflect(v, SubCol(W1, i, j))), v, i, j + 1, stop))

\* the reflection vector of step i: v = a + s*c*e for a = A[i:, i]
ReflectionVector(a) ==
  Let(a, LAMBDA a1 :
    Let2(Mul(sign(a1[1]), l2_norm(a1)), basis_vec(0, Len(a1)), LAMBDA sc, e :
      Vec(Len(a1), LAMBDA r : Add(a1[r], Mul(sc, e[r])))))

\* one pass of the elimination loop; the entry records the columns and rows
\* the step wrote and the denominators it divided by
ElimStep(W, i) ==
  Let2(W, ReflectionVector(SubCol(W, i, i)), LAMBDA W1, v :
    Let2(DegenerateReflection(v), ElimColStop(NRows(W1), NCols(W1)), LAMBDA skip, stop :
      Let(IF skip THEN W1 ELSE ElimCols(W1, v, i, i, stop), LAMBDA W2 :
        [A |-> W2, v |-> v,
         entry |-> [i |-> i,
                    degenerate |-> skip,
                    cols |-> IF skip THEN {} ELSE i..(stop - 1),
                    rows |-> IF skip THEN {} ELSE i..(NRows(W1) - 1),
                    dens |-> IF skip THEN {} ELSE {Dot(v, v)},
                    before |-> W1,
                    after |-> W2]])))

\* the elimination loop `for i in range(K)`
RECURSIVE ElimSteps(_, _, _)
ElimSteps(st, i, K) ==
  Let(st, LAMBDA s1 :
    IF i >= K THEN s1
    ELSE Let(ElimStep(s1.A, i), LAMBDA e :
           ElimSteps([A |-> e.A, vs |-> Append(s1.vs, e.v), log |-> Append(s1.log, e.entry)],
                     i + 1, K)))

\* the slip of applying the reflections in the order of their creation
ForwardSteps(vs) == Vec(Len(vs), LAMBDA j1 : [row |-> j1 - 1, v |-> vs[j1]])

\* enumerate(reversed(vs)) together with the row offset K-j-1 of each v
ReversedSteps(vs) ==
  Let2(vs, Len(vs), LAMBDA vs1, K :
    Vec(K, LAMBDA j1 : [row |-> K - (j1 - 1) - 1, v |-> vs1[K - j1 + 1]]))

\* one pass of the inner loop of the Q assembly, on column i of Q
QStep(Qm, i, step) ==
  Let2(Qm, step, LAMBDA Q1, sp :
    Let(DegenerateReflection(sp.v), LAMBDA skip :
      Let(IF skip THEN Q1
          ELSE SetSubCol(Q1, sp.row, i, Reflect(sp.v, SubCol(Q1, sp.row, i))), LAMBDA Q2 :
        [Q |-> Q2,
         entry |-> [col |-> i,
                    step |-> sp.row,
                    v |-> sp.v,
                    applied |-> ~skip,
                    rows |-> IF skip THEN {} ELSE sp.row..(NRows(Q1) - 1),
                    dens |-> IF skip THEN {} ELSE {Dot(sp.v, sp.v)},
                    unchanged |-> Q2 = Q1]])))

\* the inner loop `for j, v in enumerate(reversed(vs))`
RECURSIVE QApply(_, _, _, _)
QApply(st, i, steps, j1) ==
  Let(st, LAMBDA s1 :
    IF j1 > Len(steps) THEN s1
    ELSE Let(QStep(s1.Q, i, steps[j1]), LAMBDA e :
           QApply([Q |-> e.Q, log |-> Append(s1.log, e.entry)], i, steps, j1 + 1)))

\* the outer loop `for i in range(M)` of the Q assembly
RECURSIVE QCols(_, _, _, _)
QCols(st, i, M, steps) ==
  Let(st, LAMBDA s1 :
    IF i >= M THEN s1 ELSE QCols(QApply(s1, i, steps, 1), i + 1, M, steps))

\* X[:, :K]
FirstCols(X, K) == Let(X, LAMBDA X1 : Vec(NRows(X1), LAMBDA r : Vec(K, LAMBDA c : X1[r][c])))

\* X[:K, :]
FirstRows(X, K) == Let(X, LAMBDA X1 : Vec(K, LAMBDA r : X1[r]))

\* self.A, self.Q, self.R and the heap after the factorization
HouseholderStore(self, Aref, K, el, qa) ==
  LET Qv == IF self.reduce THEN FirstCols(qa.Q, K) ELSE qa.Q
      Rref == IF self.reduce THEN "r" ELSE Aref
      heap1 == [self.heap EXCEPT ![Aref] = el.A]
      heap2 == [heap1 EXCEPT !["q"] = Qv]
      heap3 == IF self.reduce THEN [heap2 EXCEPT !["r"] = FirstRows(el.A, K)] ELSE heap2
  IN  [self EXCEPT !.heap = heap3, !.A = Aref, !.Q = "q", !.R = Rref,
                   !.factBy = "householder"]

householder(self) ==
  Let2(self, WorkingCopy(self), LAMBDA s1, W0 :
    Let2(NRows(W0), Min(NRows(W0), NCols(W0)), LAMBDA M, K :
      Let(ElimSteps([A |-> W0, vs |-> <<>>, log |-> <<>>], 0, K), LAMBDA el :
        Let2(ReversedSteps(el.vs), Eye(M), LAMBDA steps, eye :
          Let(QCols([Q |-> eye, log |-> <<>>], 0, M, steps), LAMBDA qa :
            [self |-> HouseholderStore(s1, NpArray(s1.backup, "w"), K, el, qa),
             vs |-> el.vs, elog |-> el.log, qlog |-> qa.log, eye |-> eye])))))

(***************************************************************************)
(* QR.gram_schmidt and QR.gram_schmidt_modified                            *)
(***************************************************************************)
SetCol(W, j, u) == SetSubCol(W, 0, j, u)

VecSub(u, w) == Let2(u, w, LAMBDA u1, w1 : Vec(Len(u1), LAMBDA r : Sub(u1[r], w1[r])))

\* W[:, j] /= c
ScaleCol(W, j, c) ==
  Let2(W, c, LAMBDA W1, c1 : SetCol(W1, j, Vec(Len(W1), LAMBDA r : Div(W1[r][j + 1], c1))))

\* W[:, i] -= utils.projection(W[:, i], W[:, j])
SubProjection(W, i, j) ==
  Let(W, LAMBDA W1 :
    Let2(Col(W1, i), Col(W1, j), LAMBDA ci, cj : SetCol(W1, i, VecSub(ci, projection(ci, cj)))))

\* `for j in range(i): A[:, i] -= projection(A[:, i], A[:, j])`
RECURSIVE GSProject(_, _, _)
GSProject(W, i, j) ==
  Let(W, LAMBDA W1 : IF j >= i THEN W1 ELSE GSProject(SubProjection(W1, i, j), i, j + 1))

\* `for i in range(1, N)`: project, then utils.normalize(A[:, i], inplace=True)
RECURSIVE GSCols(_, _, _)
GSCols(W, i, N) ==
  Let(W, LAMBDA W1 :
    IF i >= N THEN W1
    ELSE Let(GSProject(W1, i, 0), LAMBDA P :
           GSCols(SetCol(P, i, normalize(Col(P, i))), i + 1, N)))

\* self.A, self.Q, self.R and the heap after a Gram-Schmidt factorization:
\* self.Q = self.A, self.R = Q.T @ R
GramSchmidtStore(self, Aref, Qv, R0, name) ==
  LET heap1 == [self.heap EXCEPT ![Aref] = Qv]
      heap2 == [heap1 EXCEPT !["r"] = MatMul(Transpose(Qv), R0)]
  IN  [self EXCEPT !.heap = heap2, !.A = Aref, !.Q = Aref, !.R = "r", !.factBy = name]

gram_schmidt(self) ==
  Let2(self, WorkingCopy(self), LAMBDA s1, W0 :
    Let(ScaleCol(W0, 0, l2_norm(Col(W0, 0))), LAMBDA W1 :
      Let(GSCols(W1, 1, NCols(W0)), LAMBDA Qv :
        [self |-> GramSchmidtStore(s1, NpArray(s1.backup, "w"), Qv, W0, "gram_schmidt")])))

\* `for j in range(i+1, N): A[:, j] -= projection(A[:, j], A[:, i])`
RECURSIVE MGSProject(_, _, _, _)
MGSProject(W, i, j, N) ==
  Let(W, LAMBDA W1 : IF j >= N THEN W1 ELSE MGSProject(SubProjection(W1, j, i), i, j + 1, N))

\* `for i in range(N)`: A[:, i] /= l2_norm(A[:, i]), then project the rest
RECURSIVE MGSCols(_, _, _)
MGSCols(W, i, N) ==
  Let(W, LAMBDA W1 :
    IF i >= N THEN W1
    ELSE MGSCols(MGSProject(ScaleCol(W1, i, l2_norm(Col(W1, i))), i, i + 1, N), i + 1, N))

gram_schmidt_modified(self) ==
  Let2(self, WorkingCopy(self), LAMBDA s1, W0 :
    Let(MGSCols(W0, 0, NCols(W0)), LAMBDA Qv :
      [self |-> GramSchmidtStore(s1, NpArray(s1.backup, "w"), Qv, W0,
                                 "gram_schmidt_modified")]))

(***************************************************************************)
(* QR.solve and QR._backward                                               *)
(***************************************************************************)
\* a right-hand side b is [ndim, vals]: ndim is 1 or 2; vals is rows x cols
\* (cols = 1 if 1-D)

\* np.squeeze on a shape: every axis of length 1 is removed
Squeeze(shape) == SelectSeq(shape, LAMBDA d : d # 1)

\* `for j in range(K-1, i, -1): acc.add(R[i, j] * x[j, k])`
RECURSIVE BackAcc(_, _, _, _, _, _)
BackAcc(acc, Rm, xm, i, j, k) ==
  Let(acc, LAMBDA a1 :
    IF j <= i THEN a1
    ELSE BackAcc(KahanAdd(a1, Mul(Rm[i + 1][j + 1], xm[j + 1][k + 1])), Rm, xm, i, j - 1, k))

\* x[i, k] = (y[i, k] - acc.result()) / R[i, i]
BackEntry(xm, Rm, ym, K, i, k) ==
  Let(BackAcc(KahanSum, Rm, xm, i, K - 1, k), LAMBDA acc :
    Div(Sub(ym[i + 1][k + 1], KahanResult(acc)), Rm[i + 1][i + 1]))

\* `for i in range(K-1, -1, -1)`; divs records the divisors R[i, i]
RECURSIVE BackRows(_, _, _, _, _, _)
BackRows(st, Rm, ym, K, i, k) ==
  Let(st, LAMBDA s1 :
    IF i < 0 THEN s1
    ELSE Let(BackEntry(s1.x, Rm, ym, K, i, k), LAMBDA xi :
           BackRows([x |-> [s1.x EXCEPT ![i + 1][k + 1] = xi],
                     divs |-> s1.divs \cup {Rm[i + 1][i + 1]}], Rm, ym, K, i - 1, k)))

\* `for k in range(num_iters)`
RECURSIVE BackCols(_, _, _, _, _, _)
BackCols(st, Rm, ym, K, k, num_iters) ==
  Let(st, LAMBDA s1 :
    IF k >= num_iters THEN s1
    ELSE BackCols(BackRows(s1, Rm, ym, K, K - 1, k), Rm, ym, K, k + 1, num_iters))

\* the back substitution proper, once y = np.dot(Q.T, b) is formed
BackSubstitute(self, Rm, ym) ==
  Let2(NCols(Rm), IF self.b.ndim = 2 THEN NCols(self.b.vals) ELSE 1, LAMBDA N, num_iters :
    Let(BackCols([x |-> Zeros(N, num_iters), divs |-> {}], Rm, ym,
                 Min(NRows(Rm), N), 0, num_iters), LAMBDA bs :
      [self |-> [self EXCEPT
                   !.y = ym,
                   !.x = [shape |-> IF self.b.ndim = 1 THEN Squeeze(<<N, num_iters>>)
                                    ELSE <<N, num_iters>>,
                          vals |-> bs.x]],
       status |-> "ok", divs |-> bs.divs]))

backward(self) ==
  Let(self, LAMBDA s1 :
    Let2(s1.heap[s1.R], s1.heap[s1.Q], LAMBDA Rm, Qm :
      IF NRows(Qm) # NRows(s1.b.vals)
      THEN \* np.dot(self.Q.T, self.b) raises ValueError: shapes not aligned
           [self |-> s1, status |-> "ValueError", divs |-> {}]
      ELSE Let(MatMul(Transpose(Qm), s1.b.vals), LAMBDA ym : BackSubstitute(s1, Rm, ym))))

\* a solve that would validate b's row count before factorizing
solve_validating(self, b) ==
  Let2(self, b, LAMBDA s1, b1 :
    IF NRows(b1.vals) # NRows(s1.heap[s1.backup])
    THEN [self |-> [s1 EXCEPT !.b = b1], status |-> "ValueError", divs |-> {},
          vs |-> <<>>, elog |-> <<>>, qlog |-> <<>>, eye |-> Unset]
    ELSE Let(householder([s1 EXCEPT !.b = b1]), LAMBDA h :
           Let(backward(h.self), LAMBDA r :
             [self |-> r.self, status |-> r.status, divs |-> r.divs,
              vs |-> h.vs, elog |-> h.elog, qlog |-> h.qlog, eye |-> h.eye])))

solve(self, b) ==
  Let(householder([self EXCEPT !.b = b]), LAMBDA h :
    Let(backward(h.self), LAMBDA r :
      [self |-> r.self, status |-> r.status, divs |-> r.divs,
       vs |-> h.vs, elog |-> h.elog, qlog |-> h.qlog, eye |-> h.eye]))

(***************************************************************************)
(* inputs                                                                  *)
(***************************************************************************)
IntMatrix(W) == Vec(Len(W), LAMBDA r : Vec(Len(W[r]), LAMBDA c : RI(W[r][c])))

\* -1/40000: its reflection vector has v.v = 2.5e-9 <= 1e-8, yet is not zero
Tiny == <<<<Frac(-1, 40000)>>>>

InputMatrices ==
  { IntMatrix(<<<<2>>>>), IntMatrix(<<<<-3>>>>), IntMatrix(<<<<0>>>>), Tiny,
    IntMatrix(<<<<1, 1>>>>),
    IntMatrix(<<<<3>>, <<4>>>>),
    IntMatrix(<<<<3, 1>>, <<4, 2>>>>),
    IntMatrix(<<<<1, 1>>, <<0, 0>>>>),
    IntMatrix(<<<<0, 1>>, <<0, 1>>>>),
    IntMatrix(<<<<1, -6>>, <<2, 8>>, <<2, 10>>>>) }

\* right-hand sides offered to solve for an A with M rows: 1-D and 2-D ones
\* with M rows, and a 1-D one with M+1 rows
BInputs(M) ==
  { [ndim |-> 1, vals |-> Vec(M, LAMBDA r : <<RI(r)>>)],
    [ndim |-> 2, vals |-> Vec(M, LAMBDA r : <<RI(r)>>)],
    [ndim |-> 2, vals |-> Vec(M, LAMBDA r : <<RI(r), RI(-1)>>)],
    [ndim |-> 1, vals |-> Vec(M + 1, LAMBDA r : <<RI(r)>>)] }

(***************************************************************************)
(* state                                                                   *)
(***************************************************************************)
VARIABLES
  heap,     \* array id -> contents (Unset if not allocated)
  backup,   \* self.backup (array id)
  reduce,   \* self.reduce
  A, Q, R,  \* self.A, self.Q, self.R (array ids, or None before the first call)
  b, y, x,  \* self.b, self.y, self.x
  factBy,   \* history: the method that last assigned self.A, self.Q, self.R
  A0,       \* history: the matrix given to the constructor
  last,     \* history: the last call, its outcome and its loop logs
  first,    \* history: what the first call of each factorization method returned
  ncalls    \* history: number of calls made

vars == <<heap, backup, reduce, A, Q, R, b, y, x, factBy, A0, last, first, ncalls>>

FactOps == {"gram_schmidt", "gram_schmidt_modified", "householder", "decompose"}

BNone == [ndim |-> 0, vals |-> <<>>]
XNone == [shape |-> <<>>, vals |-> <<>>]

Self ==
  [heap |-> heap, backup |-> backup, reduce |-> reduce, A |-> A, Q |-> Q, R |-> R,
   b |-> b, y |-> y, x |-> x, factBy |-> factBy]

Commit(s) ==
  /\ heap' = s.heap
  /\ backup' = s.backup
  /\ reduce' = s.reduce
  /\ A' = s.A
  /\ Q' = s.Q
  /\ R' = s.R
  /\ b' = s.b
  /\ y' = s.y
  /\ x' = s.x
  /\ factBy' = s.factBy

\* QR.__init__
Init ==
  /\ A0 \in InputMatrices
  /\ reduce \in BOOLEAN
  /\ heap = [id \in ArrIds |-> IF id = "b0" THEN A0 ELSE Unset]
  /\ backup = "b0"
  /\ A = None /\ Q = None /\ R = None
  /\ b = BNone /\ y = Unset /\ x = XNone
  /\ factBy = None
  /\ last = [op |-> None, status |-> None, Q |-> Unset, R |-> Unset, x |-> XNone,
             b |-> BNone, vs |-> <<>>, elog |-> <<>>, qlog |-> <<>>, eye |-> Unset,
             divs |-> {}]
  /\ first = [op \in FactOps |-> [set |-> FALSE, Q |-> Unset, R |-> Unset]]
  /\ ncalls = 0

\* a factorization method returned (self.Q, self.R)
Returned(op, r, logs) ==
  LET Qv == r.self.heap[r.self.Q]
      Rv == r.self.heap[r.self.R]
  IN  /\ Commit(r.self)
      /\ last' = [op |-> op, status |-> "ok", Q |-> Qv, R |-> Rv, x |-> XNone,
                  b |-> BNone, vs |-> logs.vs, elog |-> logs.elog, qlog |-> logs.qlog,
                  eye |-> logs.eye, divs |-> {}]
      /\ first' = IF first[op].set THEN first
                  ELSE [first EXCEPT ![op] = [set |-> TRUE, Q |-> Qv, R |-> Rv]]
      /\ ncalls' = ncalls + 1
      /\ UNCHANGED A0

NoLogs == [vs |-> <<>>, elog |-> <<>>, qlog |-> <<>>, eye |-> Unset]

GramSchmidt ==
  /\ ncalls < MaxCalls
  /\ \E r \in {gram_schmidt(Self)} : Returned("gram_schmidt", r, NoLogs)

GramSchmidtModified ==
  /\ ncalls < MaxCalls
  /\ \E r \in {gram_schmidt_modified(Self)} : Returned("gram_schmidt_modified", r, NoLogs)

Householder ==
  /\ ncalls < MaxCalls
  /\ \E r \in {householder(Self)} : Returned("householder", r, r)

\* QR.decompose: Q, R = self.householder()
Decompose ==
  /\ ncalls < MaxCalls
  /\ \E r \in {householder(Self)} : Returned("decompose", r, r)

Solve ==
  /\ ncalls < MaxCalls
  /\ \E rhs \in BInputs(NRows(A0)) : \E r \in {solve(Self, rhs)} :
           /\ Commit(r.self)
           /\ last' = [op |-> "solve", status |-> r.status,
                       Q |-> Unset, R |-> Unset,
                       x |-> IF r.status = "ok" THEN r.self.x ELSE XNone,
                       b |-> rhs, vs |-> r.vs, elog |-> r.elog, qlog |-> r.qlog,
                       eye |-> r.eye, divs |-> r.divs]
           /\ ncalls' = ncalls + 1
           /\ UNCHANGED <<A0, first>>

Next == GramSchmidt \/ GramSchmidtModified \/ Householder \/ Decompose \/ Solve

Spec == Init /\ [][Next]_vars

(***************************************************************************)
(* properties                                                              *)
(***************************************************************************)
\* calls that run the Householder factorization
HHOps == {"householder", "decompose", "solve"}

M0 == NRows(A0)
N0 == NCols(A0)
K0 == Min(M0, N0)

\* b's row count differs from A's row count
ShapeMismatch(rhs) == NRows(rhs.vals) # M0

\* v.T @ v is within np.isclose's tolerance of 0
NearZero(v) == IsCloseZero(Dot(v, v))

HasNaN(W) == \E r \in 1..Len(W) : \E c \in 1..Len(W[r]) : W[r][c] = NaN

\* C1: after construction the array self.backup is never modified: whatever
\* calls were made (failing ones included), it equals, entry by entry, the
\* matrix given to the constructor
C1_BackupPristine == backup = "b0" /\ heap[backup] = A0

\* several calls were made, the last a failing solve, and the working copy
\* has been changed by a factorization
C1_Witness ==
  /\ ncalls >= 2
  /\ last.op = "solve" /\ last.status = "ValueError"
  /\ first["gram_schmidt"].set
  /\ heap[A] # A0

\* C2: the (Q, R) a factorization method returns does not depend on the calls
\* made before it: it equals what the first call of that method returned
C2_HistoryIndependent ==
  last.op \in FactOps =>
    /\ first[last.op].set
    /\ last.Q = first[last.op].Q
    /\ last.R = first[last.op].R
    /\ (last.op = "decompose" /\ first["householder"].set =>
          last.Q = first["householder"].Q /\ last.R = first["householder"].R)

\* householder() returns after a successful solve and a gram_schmidt() call
\* were made on the same engine
C2_Witness ==
  /\ last.op = "householder"
  /\ ncalls >= 3
  /\ x # XNone
  /\ first["gram_schmidt"].set
  /\ last.Q # first["gram_schmidt"].Q

\* C3 as stated: a solve(b) whose b has the wrong row count fails without
\* running the Householder factorization and leaves self.A, self.Q and
\* self.R as they were
C3_FailsBeforeFactorization ==
  [][(last'.op = "solve" /\ ShapeMismatch(last'.b)) =>
       /\ last'.status # "ok"
       /\ last'.elog = <<>>
       /\ A' = A /\ Q' = Q /\ R' = R /\ heap' = heap /\ factBy' = factBy]_vars

\* C3 amended: a solve(b) whose b has the wrong row count fails with the
\* ValueError of np.dot in _backward, after the Householder factorization has
\* run: b is stored, self.A, self.Q and self.R hold the Householder
\* factorization of backup, and self.x and self.y are left as they were
C3_FailsAfterFactorization ==
  [][(last'.op = "solve" /\ ShapeMismatch(last'.b)) =>
       /\ last'.status = "ValueError"
       /\ last'.x = XNone
       /\ b' = last'.b
       /\ x' = x /\ y' = y
       /\ factBy' = "householder"
       /\ Len(last'.elog) = K0
       /\ heap'[A'] = last'.elog[K0].after
       /\ Q' = "q" /\ NRows(heap'[Q']) = M0
       /\ heap'[backup'] = A0]_vars

\* a mismatched solve has failed on an engine whose Q and R had been set by
\* gram_schmidt before
C3_Witness ==
  /\ last.op = "solve" /\ ShapeMismatch(last.b)
  /\ last.status = "ValueError"
  /\ first["gram_schmidt"].set
  /\ ~first["householder"].set /\ ~first["decompose"].set
  /\ factBy = "householder"

\* C4 as stated: solve(b) fails, returning no x, whenever a diagonal entry
\* R[i,i], i < K, is zero, and never divides by a zero diagonal entry
C4_SingularSolveFails ==
  (last.op = "solve" /\ ~ShapeMismatch(last.b)) =>
    /\ (\E i \in 1..K0 : IsZero(heap[R][i][i])) =>
          last.status # "ok" /\ last.x = XNone
    /\ \A d \in last.divs : ~IsZero(d)

\* C5 as stated: on an A with two identical columns the Gram-Schmidt methods
\* fail instead of returning (Q, R), and no column is divided by a zero norm
TwoIdenticalColumns(W) ==
  \E c1 \in 0..(NCols(W) - 1) : \E c2 \in 0..(NCols(W) - 1) :
    c1 # c2 /\ Col(W, c1) = Col(W, c2)

C5_RankDeficiencyFails ==
  (last.op \in {"gram_schmidt", "gram_schmidt_modified"} /\ TwoIdenticalColumns(A0)) =>
    /\ last.status # "ok"
    /\ last.Q = Unset /\ last.R = Unset

\* C6 as stated: householder() returns an R with a non-negative diagonal; for
\* a 1x1 A = [[a]] it returns Q = [[1]] or [[-1]] and R = [[|a|]]
C6_NonNegativeDiagonal ==
  last.op \in {"householder", "decompose"} =>
    /\ \A i \in 1..K0 : Geq0(last.R[i][i])
    /\ (M0 = 1 /\ N0 = 1) =>
          /\ last.Q \in {<<<<RI(1)>>>>, <<<<RI(-1)>>>>}
          /\ last.R = <<<<AbsNum(A0[1][1])>>>>

\* C7 as stated: the x solve(b) returns has shape (N,) for a 1-D b and (N, K)
\* for a 2-D b of shape (M, K), N = 1 and K = 1 included
C7_ShapeMirrorsB ==
  (last.op = "solve" /\ last.status = "ok") =>
    last.x.shape = IF last.b.ndim = 1 THEN <<N0>> ELSE <<N0, NCols(last.b.vals)>>

\* C8 as stated: every elimination step i that is not degenerate applies its
\* reflection to rows i..M-1 of every column j with i <= j <= N-1
C8_AllColumnsReflected ==
  last.op \in HHOps =>
    \A k \in 1..Len(last.elog) :
      LET en == last.elog[k]
          v == last.vs[k]
      IN  ~NearZero(v) =>
            /\ en.cols = en.i..(N0 - 1)
            /\ en.rows = en.i..(M0 - 1)
            /\ \A j \in en.i..(N0 - 1) :
                 SubCol(en.after, en.i, j) = Reflect(v, SubCol(en.before, en.i, j))

\* C9: a step whose reflection vector v has (near-)zero v.v leaves the
\* working matrix unchanged, leaves every column of Q unchanged for that
\* reflection, never divides by such a v.v, and the call returns (Q, R)
C9_DegenerateIsNoOp ==
  last.op \in HHOps =>
    /\ \A k \in 1..Len(last.elog) :
         /\ NearZero(last.vs[k]) =>
              /\ last.elog[k].after = last.elog[k].before
              /\ last.elog[k].dens = {}
         /\ \A d \in last.elog[k].dens : ~IsCloseZero(d)
    /\ \A k \in 1..Len(last.qlog) :
         /\ NearZero(last.qlog[k].v) =>
              /\ ~last.qlog[k].applied
              /\ last.qlog[k].unchanged
              /\ last.qlog[k].dens = {}
         /\ \A d \in last.qlog[k].dens : ~IsCloseZero(d)
    /\ ~HasNaN(heap[A]) /\ ~HasNaN(heap[Q])
    /\ last.op \in {"householder", "decompose"} =>
         last.status = "ok" /\ last.Q = heap[Q] /\ last.R = heap[R]

\* householder() has returned from a run with a degenerate step whose v is
\* not exactly zero, or with both a degenerate and an effective step
C9_Witness ==
  /\ last.op = "householder" /\ last.status = "ok"
  /\ \E k \in 1..Len(last.vs) :
       /\ NearZero(last.vs[k])
       /\ \/ ~IsZero(Dot(last.vs[k], last.vs[k]))
          \/ \E k2 \in 1..Len(last.vs) : ~NearZero(last.vs[k2])

\* column i of Q as the claim builds it: from column i of the identity, the
\* reflections of steps K-1, ..., 0 in turn, each on rows step..M-1
RECURSIVE C10_Column(_, _, _, _)
C10_Column(Qm, i, vs, step) ==
  IF step < 0 THEN Col(Qm, i)
  ELSE LET v == vs[step + 1]
           Q2 == IF NearZero(v) THEN Qm
                 ELSE SetSubCol(Qm, step, i, Reflect(v, SubCol(Qm, step, i)))
       IN  C10_Column(Q2, i, vs, step - 1)

\* C10: householder() stores K = min(M,N) reflection vectors, that of step i
\* of length M - i, and builds Q from the M x M identity by applying to each
\* column the stored reflections in reverse order of creation, the one of
\* step i on rows i..M-1
C10_ReverseReflections ==
  last.op \in HHOps =>
    /\ Len(last.vs) = K0
    /\ \A i \in 0..(K0 - 1) : Len(last.vs[i + 1]) = M0 - i
    /\ Len(last.qlog) = M0 * K0
    /\ \A i \in 0..(M0 - 1) : \A j \in 0..(K0 - 1) :
         LET en == last.qlog[i * K0 + j + 1]
         IN  /\ en.col = i
             /\ en.step = K0 - 1 - j
             /\ en.v = last.vs[en.step + 1]
             /\ en.applied => en.rows = en.step..(M0 - 1)
    /\ \A i \in 0..(NCols(heap[Q]) - 1) :
         Col(heap[Q], i) = C10_Column(Eye(M0), i, last.vs, K0 - 1)

\* householder() has returned for a 3-row A whose steps all reflect
C10_Witness ==
  /\ last.op = "householder"
  /\ M0 = 3 /\ K0 >= 2
  /\ \A k \in 1..Len(last.vs) : ~NearZero(last.vs[k])

====
